---- MODULE Spec2Model ----
(***************************************************************************)
(* Record consolidation and classification engine of the death-certificate *)
(* pipeline: the global store (global_updater.py), the keyword classifier  *)
(* and its producer loop (deepseek_cholera_request.py) and the filtered-   *)
(* set reconciler (cholera_processor.py).                                  *)
(*                                                                         *)
(* A record (a Python dict) is a function from key strings to value        *)
(* strings.  An insertion-ordered dict keyed by filename, and a JSON list  *)
(* of records, are both sequences of records.  A file is a record          *)
(* [state, data]: state is "missing", "malformed" or "json".               *)
(***************************************************************************)
EXTENDS Integers, Sequences, FiniteSets, TLC

VARIABLES
    \* global_updater.py and the producer that feeds it
    globalFile,        \* ./data/complete_data.json
    baseGlobal,        \* its content when the running producer started
    sourceFile,        \* the running producer's output file
    renameKey,         \* the rename_key the producer passes ("" stands for None)
    \* check_cholera_keywords
    causeText,         \* the cause_of_death handed to the classifier
    label,             \* its result, "" before the call
    \* deepseek_cholera_request.py: main
    inputFile,         \* ./deepseek/deepseek_response.json
    outputFile,        \* ./deepseek/deepseek_yes_no_response.json
    pc,                \* where main is
    yes_no_responses,  \* main's list of output entries
    processed_files,   \* main's set of filenames
    idx,               \* position of the loop in deepseek_records
    merged_list,       \* update_global_file's list, between open and dump
    unitsDone,         \* records whose save-and-update cycle has completed
    kills,             \* times the process was interrupted
    storeTorn,         \* an interruption left the global file half-written
    everStored,        \* filenames the completed writes of the global file held
    \* cholera_processor.py: process_cholera_deaths
    certDir,           \* ./death_certificates: file name -> content
    choleraDir,        \* ./cholera_positive: file name -> content
    choleraJson,       \* ./data/cholera_deaths.json
    dirBefore,         \* ./cholera_positive when the last run started
    exportBefore,      \* ./data/cholera_deaths.json when the last run started
    lastRun,           \* "none", "ok", or "unreadable" (the run returned early)
    rmFailed,          \* files whose os.remove failed in the last run
    cpFailed,          \* files whose shutil.copy2 failed in the last run
    \* global_updater.py: one update_global_file call on files of any content
    cycleResult,       \* "none", "completed", or "raised" (an exception escaped)
    \* deepseek_request.py: main
    deepseek_responses, \* main's list of extracted records
    stagePc,           \* "idle" between two runs of the stage, "loop" inside one
    stageIdx,          \* position of the loop in ocr_data
    failedWrites,      \* filenames whose save or store update raised in this run
    continued,         \* a record was handled after a write had raised
    \* two update_global_file calls that run at the same time
    callPc,            \* where each call is
    loaded_dict,       \* each call's global_dict, loaded from the global file
    updated_list,      \* each call's merged list
    callSource,        \* each call's source file
    overlapped         \* a call took a step while the other was under way

storeVars == <<baseGlobal, sourceFile, renameKey>>
classifierVars == <<causeText, label>>

producerVars == <<inputFile, outputFile, pc, yes_no_responses, processed_files,
                  idx, merged_list, unitsDone, kills, storeTorn, everStored>>

reconcilerVars == <<certDir, choleraDir, choleraJson, dirBefore, exportBefore,
                    lastRun, rmFailed, cpFailed>>

cycleVars == <<cycleResult>>
stageVars == <<deepseek_responses, stagePc, stageIdx, failedWrites, continued>>
callVars == <<callPc, loaded_dict, updated_list, callSource, overlapped>>

\* The variables of the specifications that follow the reconciler's.
laterVars == <<cycleVars, stageVars, callVars>>

vars == <<globalFile, storeVars, classifierVars, producerVars, reconcilerVars,
          laterVars>>

----------------------------------------------------------------------------
(* Bounds and input sets *)

\* Longest batch (source file) handed to update_global_file.
MaxBatch == 2

Ids == {"a", "b"}

CanonicalKeys ==
    {"filename", "person_name", "certificate_url", "ocr_text",
     "death_date", "death_location", "cause_of_death", "cholera_death"}

\* historical_vital_records_downloader.py keys its records by this name.
OutputFilenameKey == "output filename"

----------------------------------------------------------------------------
(* Files *)

MissingFile == [state |-> "missing", data |-> <<>>]
MalformedFile == [state |-> "malformed", data |-> <<>>]
JsonFile(list) == [state |-> "json", data |-> list]

\* A file whose bytes are not UTF-8 text: reading it raises
\* UnicodeDecodeError, which is not a JSONDecodeError.
UndecodableFile == [state |-> "undecodable", data |-> <<>>]

\* load_json lets every exception but JSONDecodeError escape.
load_json_raises(file) == file.state = "undecodable"

\* load_json: a missing file and a JSONDecodeError both give [].
load_json(file) == IF file.state = "json" THEN file.data ELSE <<>>

\* save_json: the whole list replaces the file's content.
save_json(data) == JsonFile(data)

----------------------------------------------------------------------------
(* Dicts *)

Has(record, key) == key \in DOMAIN record

\* record.get(key), with "" for None (both are falsy).
Get(record, key) == IF Has(record, key) THEN record[key] ELSE ""

\* d.update(record): the keys of record are set in d, the others are kept.
DictUpdate(d, record) ==
    [k \in DOMAIN d \cup DOMAIN record |->
        IF k \in DOMAIN record THEN record[k] ELSE d[k]]

\* The record a new filename is initialised with.
SeedRecord(fname) ==
    [k \in CanonicalKeys |-> IF k = "filename" THEN fname ELSE ""]

\* Position of the record with this filename in an ordered dict, 0 if none.
IndexOf(existing, fname) ==
    IF \E i \in 1..Len(existing) : existing[i]["filename"] = fname
    THEN CHOOSE i \in 1..Len(existing) : existing[i]["filename"] = fname
    ELSE 0

RenameKeepsKey(record, rename_key) ==
    IF rename_key # "" /\ Has(record, rename_key)
    THEN [k \in DOMAIN record \cup {"filename"} |->
            IF k = "filename" THEN record[rename_key] ELSE record[k]]
    ELSE record

\* record["filename"] = record.pop(rename_key), when the key is there.
RenameRecord(record, rename_key) ==
    IF rename_key # "" /\ Has(record, rename_key)
    THEN [k \in (DOMAIN record \ {rename_key}) \cup {"filename"} |->
            IF k = "filename" THEN record[rename_key] ELSE record[k]]
    ELSE record

\* One iteration of the loop of merge_records, on the renamed record.
MergeNewMissesUpdate(existing, record) ==
    LET fname == Get(record, "filename")
        i == IndexOf(existing, fname)
    IN  IF fname = "" THEN existing
        ELSE IF i # 0 THEN [existing EXCEPT ![i] = DictUpdate(@, record)]
        ELSE Append(existing, SeedRecord(fname))

MergeReplacesExisting(existing, record) ==
    LET fname == Get(record, "filename")
        i == IndexOf(existing, fname)
    IN  IF fname = "" THEN existing
        ELSE IF i # 0
             THEN [existing EXCEPT ![i] = DictUpdate(SeedRecord(fname), record)]
        ELSE Append(existing, DictUpdate(SeedRecord(fname), record))

MergeKeepsExisting(existing, record) ==
    LET fname == Get(record, "filename")
        i == IndexOf(existing, fname)
    IN  IF fname = "" THEN existing
        ELSE IF i # 0 THEN [existing EXCEPT ![i] = DictUpdate(record, @)]
        ELSE Append(existing, DictUpdate(SeedRecord(fname), record))

MergeNewUnseeded(existing, record) ==
    LET fname == Get(record, "filename")
        i == IndexOf(existing, fname)
    IN  IF fname = "" THEN existing
        ELSE IF i # 0 THEN [existing EXCEPT ![i] = DictUpdate(@, record)]
        ELSE Append(existing, record)

MergeOne(existing, record) ==
    LET fname == Get(record, "filename")
        i == IndexOf(existing, fname)
    IN  IF fname = "" THEN existing
        ELSE IF i # 0 THEN [existing EXCEPT ![i] = DictUpdate(@, record)]
        ELSE Append(existing, DictUpdate(SeedRecord(fname), record))

RECURSIVE MergeStopsAtUnkeyed(_, _, _)
MergeStopsAtUnkeyed(existing, new, rename_key) ==
    IF new = <<>> THEN existing
    ELSE LET record == RenameRecord(Head(new), rename_key)
         IN  IF Get(record, "filename") = "" THEN existing
             ELSE MergeStopsAtUnkeyed(MergeOne(existing, record), Tail(new),
                                      rename_key)

\* merge_records: the records of new are merged in order.
RECURSIVE merge_records(_, _, _)
merge_records(existing, new, rename_key) ==
    IF new = <<>> THEN existing
    ELSE merge_records(MergeOne(existing, RenameRecord(Head(new), rename_key)),
                       Tail(new), rename_key)

\* The list new as merge_records leaves it: the renaming is done in place.
RenamedInPlace(new, rename_key) ==
    [i \in 1..Len(new) |-> RenameRecord(new[i], rename_key)]

\* A load that finds nothing of the global file.
LoadsNothing(acc, global_data) == acc

\* {entry.get("filename"): entry for entry in global_data if entry.get("filename")}
RECURSIVE DictFromList(_, _)
DictFromList(acc, global_data) ==
    IF global_data = <<>> THEN acc
    ELSE LET entry == Head(global_data)
             i == IndexOf(acc, Get(entry, "filename"))
         IN  DictFromList(
                 IF Get(entry, "filename") = "" THEN acc
                 ELSE IF i # 0 THEN [acc EXCEPT ![i] = entry]
                 ELSE Append(acc, entry),
                 Tail(global_data))

\* The record stored under a filename (the filename is in the dict).
RecordOf(existing, fname) == existing[IndexOf(existing, fname)]

StoreIds(existing) == {existing[i]["filename"] : i \in 1..Len(existing)}

\* update_global_file: the new content of the global file.
update_global_file(global_file, source_file, rename_key) ==
    LET global_dict == DictFromList(<<>>, load_json(global_file))
        source_data == load_json(source_file)
        updated_dict == merge_records(global_dict, source_data, rename_key)
    IN  save_json(updated_dict)

----------------------------------------------------------------------------
(* Text.  A Python str is a sequence of one-character strings. *)

UpperCase == <<"A", "B", "C", "D", "E", "F", "G", "H", "I", "J", "K", "L", "M", "N", "O", "P",
               "Q", "R", "S", "T", "U", "V", "W", "X", "Y", "Z">>
LowerCase == <<"a", "b", "c", "d", "e", "f", "g", "h", "i", "j", "k", "l", "m", "n", "o", "p",
               "q", "r", "s", "t", "u", "v", "w", "x", "y", "z">>
Digits == {"0", "1", "2", "3", "4", "5", "6", "7", "8", "9"}

\* str.lower() of the upper-case letters.
LowerOf ==
    [c \in {UpperCase[i] : i \in 1..Len(UpperCase)} |->
        LowerCase[CHOOSE i \in 1..Len(UpperCase) : UpperCase[i] = c]]

\* str.lower(), one character.
LowerChar(c) == IF c \in DOMAIN LowerOf THEN LowerOf[c] ELSE c

\* str.lower()
Lower(text) == [i \in 1..Len(text) |-> LowerChar(text[i])]

\* \w of the re module: a letter, a digit or the underscore.
WordChars ==
    {LowerCase[i] : i \in 1..Len(LowerCase)}
        \cup {UpperCase[i] : i \in 1..Len(UpperCase)} \cup Digits \cup {"_"}

IsWordChar(c) == c \in WordChars

\* keyword in text
IsSubstring(keyword, text) ==
    \E s \in 0..(Len(text) - Len(keyword)) :
        \A k \in 1..Len(keyword) : text[s + k] = keyword[k]

\* re.split(r'\W+', text): the pieces between the runs of non-word
\* characters; a text that starts or ends with such a run gives an empty
\* first or last piece.
RECURSIVE SplitFrom(_, _, _, _)
SplitFrom(text, i, piece, pieces) ==
    IF i > Len(text) THEN Append(pieces, piece)
    ELSE IF IsWordChar(text[i])
         THEN SplitFrom(text, i + 1, Append(piece, text[i]), pieces)
    ELSE IF i > 1 /\ ~IsWordChar(text[i - 1])
         THEN SplitFrom(text, i + 1, piece, pieces)
    ELSE SplitFrom(text, i + 1, <<>>, Append(pieces, piece))

re_split(text) == SplitFrom(text, 1, <<>>, <<>>)

----------------------------------------------------------------------------
(* difflib.SequenceMatcher(None, a, b).ratio(), no junk *)

\* Length of the common run of a from i and b from j, inside a[..ahi], b[..bhi].
RECURSIVE RunLength(_, _, _, _, _, _)
RunLength(a, b, i, j, ahi, bhi) ==
    IF i > ahi \/ j > bhi THEN 0
    ELSE IF a[i] # b[j] THEN 0
    ELSE 1 + RunLength(a, b, i + 1, j + 1, ahi, bhi)

SmallestOf(set) == CHOOSE x \in set : \A y \in set : x <= y
LargestOf(set) == CHOOSE x \in set : \A y \in set : y <= x

\* find_longest_match on a[alo..ahi] and b[blo..bhi]: <<i, j, size>> of the
\* longest block, the one that starts earliest in a and then earliest in b.
\* A block starts where the two characters are equal; <<alo, blo, 0>> when
\* there is none.
find_longest_match(a, b, alo, ahi, blo, bhi) ==
    LET starts == {s \in (alo..ahi) \X (blo..bhi) : a[s[1]] = b[s[2]]}
        size == [s \in starts |-> RunLength(a, b, s[1], s[2], ahi, bhi)]
        bestsize == LargestOf({size[s] : s \in starts})
        longest == {s \in starts : size[s] = bestsize}
        besti == SmallestOf({s[1] : s \in longest})
        bestj == SmallestOf({s[2] : s \in {t \in longest : t[1] = besti}})
    IN  IF starts = {} THEN <<alo, blo, 0>>
        ELSE <<besti, bestj, bestsize>>

\* Sum of the sizes of get_matching_blocks(): the longest block, then the
\* same to its left and to its right.
RECURSIVE Matches(_, _, _, _, _, _)
Matches(a, b, alo, ahi, blo, bhi) ==
    IF alo > ahi \/ blo > bhi THEN 0
    ELSE LET m == find_longest_match(a, b, alo, ahi, blo, bhi)
         IN  IF m[3] = 0 THEN 0
             ELSE m[3]
                  + Matches(a, b, alo, m[1] - 1, blo, m[2] - 1)
                  + Matches(a, b, m[1] + m[3], ahi, m[2] + m[3], bhi)

\* The threshold of fuzzy_in_text, in tenths.
ThresholdTenths == 8

\* SequenceMatcher(None, a, b).ratio() >= threshold:
\* ratio is 2.0 * matches / (len(a) + len(b)), and 1.0 for two empty strings.
RatioAtLeast(a, b, tenths) ==
    IF Len(a) + Len(b) = 0 THEN 10 >= tenths
    ELSE 20 * Matches(a, b, 1, Len(a), 1, Len(b)) >= tenths * (Len(a) + Len(b))

----------------------------------------------------------------------------
(* deepseek_cholera_request.py: the classifier *)

FuzzySubstringOnly(keyword, text, tenths) == IsSubstring(keyword, text)

fuzzy_in_text(keyword, text, tenths) ==
    \/ IsSubstring(keyword, text)
    \/ LET words == re_split(text)
       IN  \E w \in 1..Len(words) : RatioAtLeast(words[w], keyword, tenths)

negative_keywords ==
    << <<"h", "a", "n", "g", "i", "n", "g">>,
       <<"c", "o", "n", "v", "u", "l", "s", "i", "o", "n", "s">>,
       <<"h", "e", "a", "d", " ", "i", "n", "j", "u", "r", "y">>,
       <<"t", "y", "p", "h", "o", "i", "d", " ", "f", "e", "v", "e", "r">>,
       <<"d", "i", "p", "t", "h", "e", "r", "i", "a">>,
       <<"e", "p", "i", "l", "e", "p", "s", "y">>,
       <<"o", "l", "d", " ", "a", "g", "e">> >>

positive_keywords ==
    << <<"c", "h", "o", "l", "e", "r", "a">>,
       <<"a", "s", "i", "a", "t", "i", "c", " ", "c", "h", "o", "l", "e", "r", "a">>,
       <<"c", "h", "o", "l", "e", "r", "a", " ", "m", "o", "r", "b", "u", "s">>,
       <<"c", "h", "o", "l", "e", "r", "a", " ", "i", "n", "f", "a", "n", "t", "u", "m">>,
       <<"c", "h", "r", "o", "n", "i", "c", " ", "d", "i", "a", "r", "r", "h", "e", "a">>,
       <<"d", "i", "a", "r", "r", "h", "o", "e", "a">>,
       <<"d", "i", "a", "r", "r", "h", "e", "a">>,
       <<"v", "o", "m", "i", "t", "i", "n", "g">>,
       <<"e", "x", "h", "a", "u", "s", "t", "i", "o", "n">> >>

\* The first keyword of the list from position i on that is in the text.
RECURSIVE AnyKeyword(_, _, _)
AnyKeyword(keywords, i, text) ==
    IF i > Len(keywords) THEN FALSE
    ELSE IF fuzzy_in_text(keywords[i], text, ThresholdTenths) THEN TRUE
    ELSE AnyKeyword(keywords, i + 1, text)

CheckPositiveFirst(cause) ==
    IF cause = <<>> THEN "unknown"
    ELSE LET cause_lower == Lower(cause)
         IN  IF AnyKeyword(positive_keywords, 1, cause_lower) THEN "yes"
             ELSE IF AnyKeyword(negative_keywords, 1, cause_lower) THEN "no"
             ELSE "unknown"

check_cholera_keywords(cause) ==
    IF cause = <<>> THEN "unknown"
    ELSE LET cause_lower == Lower(cause)
         IN  IF AnyKeyword(negative_keywords, 1, cause_lower) THEN "no"
             ELSE IF AnyKeyword(positive_keywords, 1, cause_lower) THEN "yes"
             ELSE "unknown"

----------------------------------------------------------------------------
(* Partial records of the producers *)

Vals == {"1", "2"}

\* document_ai_processor.py: {"filename", "ocr_text"}
OcrRecord(id, v) == [k \in {"filename", "ocr_text"} |->
                        IF k = "filename" THEN id ELSE v]

\* deepseek_name_request.py: {"filename", "person_name"}
NameRecord(id, v) == [k \in {"filename", "person_name"} |->
                        IF k = "filename" THEN id ELSE v]

\* historical_vital_records_downloader.py: {"output filename", "certificate_url"}
SavedRecord(id, v) == [k \in {OutputFilenameKey, "certificate_url"} |->
                        IF k = OutputFilenameKey THEN id ELSE v]

\* A record with no identifying key, and one whose filename is empty.
AnonymousRecord(v) == [k \in {"ocr_text"} |-> v]

Partials ==
    {OcrRecord("a", v) : v \in Vals}
    \cup {OcrRecord("b", "1"), NameRecord("a", "1"), SavedRecord("a", "1"),
          SavedRecord("b", "2"), AnonymousRecord("1"), NameRecord("", "1"),
          SavedRecord("", "1")}

RenameKeys == {"", OutputFilenameKey}

----------------------------------------------------------------------------
(* Values of the variables a specification does not use *)

StoreIdle ==
    /\ baseGlobal = MissingFile
    /\ sourceFile = MissingFile
    /\ renameKey = ""

ClassifierIdle ==
    /\ causeText = <<>>
    /\ label = ""

EmptyDir == [name \in {} |-> ""]

ReconcilerIdle ==
    /\ certDir = EmptyDir
    /\ choleraDir = EmptyDir
    /\ choleraJson = MissingFile
    /\ dirBefore = EmptyDir
    /\ exportBefore = MissingFile
    /\ lastRun = "none"
    /\ rmFailed = {}
    /\ cpFailed = {}

CycleIdle == cycleResult = "none"

StageIdle ==
    /\ deepseek_responses = <<>>
    /\ stagePc = "idle"
    /\ stageIdx = 0
    /\ failedWrites = {}
    /\ continued = FALSE

CallsIdle ==
    /\ callPc = <<"idle", "idle">>
    /\ loaded_dict = << <<>>, <<>> >>
    /\ updated_list = << <<>>, <<>> >>
    /\ callSource = <<MissingFile, MissingFile>>
    /\ overlapped = FALSE

LaterIdle == CycleIdle /\ StageIdle /\ CallsIdle

ProducerIdle ==
    /\ inputFile = MissingFile
    /\ outputFile = MissingFile
    /\ pc = "idle"
    /\ yes_no_responses = <<>>
    /\ processed_files = {}
    /\ idx = 0
    /\ merged_list = <<>>
    /\ unitsDone = 0
    /\ kills = 0
    /\ storeTorn = FALSE
    /\ everStored = {}

----------------------------------------------------------------------------
(* The store under the producers' save-and-update cycles *)

Init ==
    /\ globalFile = MissingFile
    /\ baseGlobal = MissingFile
    /\ sourceFile = MissingFile
    /\ renameKey = ""
    /\ ClassifierIdle
    /\ ProducerIdle
    /\ ReconcilerIdle
    /\ LaterIdle

\* pipeline.py runs the next producer: its output file does not exist yet.
run_module ==
    \E rename_key \in RenameKeys :
        /\ sourceFile' = MissingFile
        /\ renameKey' = rename_key
        /\ baseGlobal' = globalFile
        /\ UNCHANGED <<globalFile, classifierVars, producerVars, reconcilerVars,
                     laterVars>>

\* The producer appends one record to its output file, writes the file and
\* calls update_global_file on it.
save_record ==
    \E record \in Partials :
        LET records == Append(load_json(sourceFile), record) IN
        /\ Len(records) <= MaxBatch
        /\ sourceFile' = JsonFile(records)
        /\ globalFile' = update_global_file(globalFile, JsonFile(records), renameKey)
        /\ UNCHANGED <<renameKey, baseGlobal, classifierVars, producerVars,
                     reconcilerVars, laterVars>>

Next == run_module \/ save_record

Spec == Init /\ [][Next]_vars

----------------------------------------------------------------------------
(* Claims on the merge *)

Store == load_json(globalFile)
SourceData == load_json(sourceFile)

\* C1: every record of the store, after any sequence of update_global_file
\* calls that started from no store, has all eight canonical keys.
SchemaComplete ==
    \A i \in 1..Len(Store) : CanonicalKeys \subseteq DOMAIN Store[i]

\* A record created from a downloader record alone: it supplied two keys.
SchemaCompleteWitness ==
    /\ "b" \in StoreIds(Store)
    /\ RecordOf(Store, "b")["certificate_url"] = "2"
    /\ RecordOf(Store, "b")["ocr_text"] = ""
    /\ SourceData = <<SavedRecord("b", "2")>>

\* C2: when a partial record whose filename is already in the store is
\* merged, the stored record takes every field of the partial, keeps every
\* other field, and the records of the other filenames do not change.
FieldOverwriteStep(record) ==
    LET partial == RenameRecord(record, renameKey)
        fname == Get(partial, "filename")
        old == Store
        new == load_json(globalFile')
    IN  (/\ sourceFile' = JsonFile(Append(SourceData, record))
         /\ fname # ""
         /\ fname \in StoreIds(old))
        => /\ StoreIds(new) = StoreIds(old)
           /\ Len(new) = Len(old)
           /\ DOMAIN RecordOf(new, fname)
                = DOMAIN RecordOf(old, fname) \cup DOMAIN partial
           /\ \A k \in DOMAIN partial : RecordOf(new, fname)[k] = partial[k]
           /\ \A k \in DOMAIN RecordOf(old, fname) \ DOMAIN partial :
                 RecordOf(new, fname)[k] = RecordOf(old, fname)[k]
           /\ \A other \in StoreIds(old) \ {fname} :
                 RecordOf(new, other) = RecordOf(old, other)

FieldOverwrite == [][\A record \in Partials : FieldOverwriteStep(record)]_vars

\* ocr_text "1" then "2" for a stored filename whose person_name was set.
FieldOverwriteWitness ==
    /\ "a" \in StoreIds(load_json(baseGlobal))
    /\ RecordOf(load_json(baseGlobal), "a")["person_name"] = "1"
    /\ SourceData = <<OcrRecord("a", "1"), OcrRecord("a", "2")>>
    /\ RecordOf(Store, "a")["ocr_text"] = "2"
    /\ RecordOf(Store, "a")["person_name"] = "1"

\* C3: applying the same batch a second time, with update_global_file on the
\* same source file or with merge_records on the same list, gives the
\* mapping the first application gave.
MergeIdempotent ==
    LET existing == DictFromList(<<>>, load_json(baseGlobal))
        once == merge_records(existing, SourceData, renameKey)
        again == RenamedInPlace(SourceData, renameKey)
    IN  /\ Store = once
        /\ load_json(update_global_file(globalFile, sourceFile, renameKey)) = Store
        /\ merge_records(once, again, renameKey) = once

\* A merged batch with a renamed key that creates one record and updates it.
MergeIdempotentWitness ==
    /\ renameKey = OutputFilenameKey
    /\ SourceData = <<SavedRecord("b", "2"), OcrRecord("b", "1")>>
    /\ RecordOf(Store, "b")["ocr_text"] = "1"

\* C4: two partial records of one filename with no other field in common
\* give the same stored record in either order.
DisjointPair(p, q) ==
    /\ Get(p, "filename") # ""
    /\ Get(p, "filename") = Get(q, "filename")
    /\ (DOMAIN p \cap DOMAIN q) \ {"filename"} = {}

MergeCommutes ==
    LET n == Len(SourceData) IN
    n >= 2 =>
        LET p == RenameRecord(SourceData[n - 1], renameKey)
            q == RenameRecord(SourceData[n], renameKey)
            swapped == [SourceData EXCEPT ![n - 1] = SourceData[n],
                                          ![n] = SourceData[n - 1]]
            other == load_json(update_global_file(baseGlobal, JsonFile(swapped),
                                                  renameKey))
        IN  DisjointPair(p, q) =>
                RecordOf(Store, Get(p, "filename"))
                    = RecordOf(other, Get(p, "filename"))

\* ocr_text and person_name of a filename that was already stored.
MergeCommutesWitness ==
    /\ "a" \in StoreIds(load_json(baseGlobal))
    /\ SourceData = <<OcrRecord("a", "2"), NameRecord("a", "1")>>
    /\ RecordOf(Store, "a")["ocr_text"] = "2"
    /\ RecordOf(Store, "a")["person_name"] = "1"

\* The id of a partial record: the value under the rename key when the
\* record has that key, otherwise the value under "filename"; "" when none.
ResolvedId(record, rename_key) ==
    IF rename_key # "" /\ rename_key \in DOMAIN record THEN record[rename_key]
    ELSE IF "filename" \in DOMAIN record THEN record["filename"]
    ELSE ""

KeyedOnly(batch, rename_key) ==
    SelectSeq(batch, LAMBDA record : ResolvedId(record, rename_key) # "")

\* C12: the store after a batch is the store the batch without its records
\* of no id gives: such a record creates no record and changes none, and the
\* records before and after it are merged.
MissingKeyDropped ==
    LET existing == DictFromList(<<>>, load_json(baseGlobal))
    IN  /\ Store = merge_records(existing, KeyedOnly(SourceData, renameKey),
                                 renameKey)
        /\ "" \notin StoreIds(Store)
        /\ \A i \in 1..Len(SourceData) :
              ResolvedId(SourceData[i], renameKey) = ""
                => merge_records(Store, <<SourceData[i]>>, renameKey) = Store

\* A record whose renamed key is empty, followed by one that is merged.
MissingKeyDroppedWitness ==
    /\ renameKey = OutputFilenameKey
    /\ SourceData = <<SavedRecord("", "1"), SavedRecord("b", "2")>>
    /\ StoreIds(Store) = StoreIds(load_json(baseGlobal)) \cup {"b"}
    /\ RecordOf(Store, "b")["certificate_url"] = "2"

\* The record with its key K renamed to "filename".
RenamedTo(record, K) ==
    IF K \in DOMAIN record
    THEN [k \in (DOMAIN record \ {K}) \cup {"filename"} |->
            IF k = "filename" THEN record[K] ELSE record[k]]
    ELSE record

\* C14: a batch merged with rename_key = K gives the store the batch with
\* K renamed to "filename" in every record gives when merged without rename
\* key; a record is stored under the id its key K held, K is a key of no
\* stored record, and a record without K is stored under its filename.
SourceKeyRename ==
    renameKey # "" =>
        LET existing == DictFromList(<<>>, load_json(baseGlobal))
            renamed == [i \in 1..Len(SourceData) |->
                           RenamedTo(SourceData[i], renameKey)]
        IN  /\ Store = merge_records(existing, renamed, "")
            /\ \A i \in 1..Len(Store) : renameKey \notin DOMAIN Store[i]
            /\ \A i \in 1..Len(SourceData) :
                  LET record == SourceData[i]
                      id == IF renameKey \in DOMAIN record
                            THEN record[renameKey]
                            ELSE Get(record, "filename")
                  IN  id # "" =>
                        /\ id \in StoreIds(Store)
                        /\ \A k \in DOMAIN record \ {renameKey, "filename"} :
                              (\A j \in (i + 1)..Len(SourceData) :
                                  k \notin DOMAIN SourceData[j])
                                => RecordOf(Store, id)[k] = record[k]

\* A downloader record stored under its "output filename", and a record
\* that carries "filename", in one batch.
SourceKeyRenameWitness ==
    /\ renameKey = OutputFilenameKey
    /\ SourceData = <<SavedRecord("a", "1"), OcrRecord("b", "1")>>
    /\ RecordOf(Store, "a")["certificate_url"] = "1"
    /\ RecordOf(Store, "b")["ocr_text"] = "1"

----------------------------------------------------------------------------
(* The classifier on cause texts *)

\* Longest cause text, in words.
MaxWords == 3

Str_Cholera == <<"C", "h", "o", "l", "e", "r", "a", ",">>
Str_cholerra == <<"c", "h", "o", "l", "e", "r", "r", "a">>
Str_epilepsy == <<"e", "p", "i", "l", "e", "p", "s", "y">>
Str_with == <<"w", "i", "t", "h">>
Str_diarrhea == <<"d", "i", "a", "r", "r", "h", "e", "a">>
Str_cats == <<"c", "a", "t", "s">>
Str_old_age == <<"o", "l", "d", " ", "a", "g", "e">>

Words == {Str_Cholera, Str_cholerra, Str_epilepsy, Str_with, Str_diarrhea,
          Str_cats, Str_old_age}

\* " ".join(words)
RECURSIVE JoinWords(_)
JoinWords(words) ==
    IF words = <<>> THEN <<>>
    ELSE IF Len(words) = 1 THEN words[1]
    ELSE words[1] \o <<" ">> \o JoinWords(Tail(words))

CauseTexts == {JoinWords(ws) : ws \in UNION {[1..n -> Words] : n \in 0..MaxWords}}

ClassifyInit ==
    /\ causeText \in CauseTexts
    /\ label = ""
    /\ globalFile = MissingFile
    /\ StoreIdle
    /\ ProducerIdle
    /\ ReconcilerIdle
    /\ LaterIdle

\* main, lines 101-102: cholera_death = check_cholera_keywords(causeText)
classify ==
    /\ label = ""
    /\ label' = check_cholera_keywords(causeText)
    /\ UNCHANGED <<causeText, globalFile, storeVars, producerVars, reconcilerVars,
                 laterVars>>

ClassifyNext == classify

SpecClassify == ClassifyInit /\ [][ClassifyNext]_vars

----------------------------------------------------------------------------
(* Claims on the classifier *)

NegativeMatches(text) ==
    \E i \in 1..Len(negative_keywords) :
        fuzzy_in_text(negative_keywords[i], text, ThresholdTenths)

PositiveMatches(text) ==
    \E i \in 1..Len(positive_keywords) :
        fuzzy_in_text(positive_keywords[i], text, ThresholdTenths)

\* C10: the label is "unknown" for an empty cause; otherwise "no" when a
\* negative keyword matches the lower-cased text, whatever the positive
\* keywords do; otherwise "yes" when a positive keyword matches; otherwise
\* "unknown".  It is one of the three labels.
ClassifierDecision ==
    label # "" =>
        /\ label \in {"yes", "no", "unknown"}
        /\ label = IF causeText = <<>> THEN "unknown"
                   ELSE IF NegativeMatches(Lower(causeText)) THEN "no"
                   ELSE IF PositiveMatches(Lower(causeText)) THEN "yes"
                   ELSE "unknown"

\* "epilepsy with diarrhea": both lists match, the label is "no".
ClassifierDecisionWitness ==
    /\ causeText = JoinWords(<<Str_epilepsy, Str_with, Str_diarrhea>>)
    /\ NegativeMatches(Lower(causeText))
    /\ PositiveMatches(Lower(causeText))
    /\ label = "no"

\* The tokens of a text: its maximal runs of word characters.
Tokens(text) ==
    LET word == {k \in 1..Len(text) : IsWordChar(text[k])}
        first == {i \in word : i - 1 \notin word}
        last == {j \in word : j + 1 \notin word}
    IN  {SubSeq(text, i, SmallestOf({j \in last : j >= i})) : i \in first}

Keywords ==
    {negative_keywords[i] : i \in 1..Len(negative_keywords)}
        \cup {positive_keywords[i] : i \in 1..Len(positive_keywords)}

\* The tokens the cause texts are made of, and for each of them the keywords
\* it has a similarity ratio of at least 0.8 to.
WordTokens == UNION {Tokens(Lower(word)) : word \in Words}

WithinThreshold ==
    [token \in WordTokens |->
        {keyword \in Keywords : RatioAtLeast(token, keyword, ThresholdTenths)}]

\* C11: a keyword is in a text exactly when it is a contiguous substring of
\* the text or a token of the text has a similarity ratio of at least 0.8 to
\* it; "cholerra" is labelled "yes" and "cats" is labelled "unknown".
FuzzyPrimitive ==
    label # "" =>
        LET text == Lower(causeText)
            tokens == Tokens(text)
        IN  /\ \A keyword \in Keywords :
                 fuzzy_in_text(keyword, text, ThresholdTenths)
                    <=> \/ IsSubstring(keyword, text)
                        \/ \E token \in tokens :
                              keyword \in WithinThreshold[token]
            /\ causeText = Str_cholerra => label = "yes"
            /\ causeText = Str_cats => label = "unknown"

\* "cholerra": no keyword is a substring, the token is within the threshold
\* of "cholera".
FuzzyPrimitiveWitness ==
    /\ causeText = Str_cholerra
    /\ \A keyword \in Keywords : ~IsSubstring(keyword, Lower(causeText))
    /\ positive_keywords[1] \in WithinThreshold[Str_cholerra]
    /\ label = "yes"

----------------------------------------------------------------------------
(* deepseek_cholera_request.py: main, step by step, with interruptions.    *)
(* Writing a file is two steps: open(path, "w") empties the file, then     *)
(* json.dump and the close fill it.  A process that is interrupted between *)
(* the two leaves a file json.load rejects.                                *)

\* Records of the input file.
MaxUnits == 2
\* Interruptions of the process.
MaxKills == 1

UnitIds == <<"a", "b", "c", "d">>

\* The str of a cause_of_death value, as characters.
Chars(s) ==
    CASE s = "" -> <<>>
      [] s = "Cholera" -> <<"C", "h", "o", "l", "e", "r", "a">>
      [] s = "old age" -> Str_old_age

Causes == {"", "Cholera", "old age"}

\* deepseek_request.py: {"filename", "death_date", "death_location",
\* "cause_of_death"}
DeepseekRecord(id, c) ==
    [k \in {"filename", "death_date", "death_location", "cause_of_death"} |->
        CASE k = "filename" -> id
          [] k = "death_date" -> "1866"
          [] k = "death_location" -> "NY"
          [] k = "cause_of_death" -> c]

\* The input files: one record per filename.
InputLists ==
    {[i \in 1..MaxUnits |-> DeepseekRecord(UnitIds[i], cs[i])] :
        cs \in [1..MaxUnits -> Causes]}

\* The global file the earlier stages leave: document_ai_processor has merged
\* the OCR text of every certificate ("z" is one deepseek_request failed on),
\* deepseek_request its records.
PriorGlobal(deepseek_records) ==
    LET ocr == [i \in 1..(Len(deepseek_records) + 1) |->
                   IF i <= Len(deepseek_records)
                   THEN OcrRecord(deepseek_records[i]["filename"], "1")
                   ELSE OcrRecord("z", "1")]
    IN  update_global_file(update_global_file(MissingFile, JsonFile(ocr), ""),
                           JsonFile(deepseek_records), "")

\* main, lines 101-108
output_entry(record) ==
    LET c == Get(record, "cause_of_death") IN
    [k \in {"filename", "cause_of_death", "cholera_death"} |->
        CASE k = "filename" -> record["filename"]
          [] k = "cause_of_death" -> c
          [] k = "cholera_death" -> check_cholera_keywords(Chars(c))]

FilenamesOf(entries) ==
    {entries[i]["filename"] : i \in {j \in 1..Len(entries) : Has(entries[j], "filename")}}

ProducerInit ==
    /\ \E records \in InputLists :
        /\ inputFile = JsonFile(records)
        /\ globalFile = PriorGlobal(records)
        /\ everStored = StoreIds(load_json(PriorGlobal(records)))
    /\ outputFile = MissingFile
    /\ pc = "start"
    /\ yes_no_responses = <<>>
    /\ processed_files = {}
    /\ idx = 0
    /\ merged_list = <<>>
    /\ unitsDone = 0
    /\ kills = 0
    /\ storeTorn = FALSE
    /\ StoreIdle
    /\ ClassifierIdle
    /\ ReconcilerIdle
    /\ LaterIdle

ProducerFrame ==
    UNCHANGED <<inputFile, storeVars, classifierVars, reconcilerVars, laterVars>>

StoreKept == UNCHANGED <<globalFile, everStored>>

\* main, lines 84-90: the files are loaded.
main_load ==
    /\ pc = "start"
    /\ yes_no_responses' = load_json(outputFile)
    /\ processed_files' = FilenamesOf(load_json(outputFile))
    /\ idx' = 1
    /\ pc' = "loop"
    /\ StoreKept
    /\ UNCHANGED <<outputFile, merged_list, unitsDone, kills, storeTorn>>
    /\ ProducerFrame

\* main, lines 93-98: a record without filename or already processed.
loop_skip ==
    /\ pc = "loop"
    /\ idx <= Len(load_json(inputFile))
    /\ LET record == load_json(inputFile)[idx] IN
        \/ Get(record, "filename") = ""
        \/ Get(record, "filename") \in processed_files
    /\ idx' = idx + 1
    /\ StoreKept
    /\ UNCHANGED <<outputFile, pc, yes_no_responses, processed_files,
                   merged_list, unitsDone, kills, storeTorn>>
    /\ ProducerFrame

\* main, lines 100-111: the record is classified and appended.
loop_classify ==
    /\ pc = "loop"
    /\ idx <= Len(load_json(inputFile))
    /\ LET record == load_json(inputFile)[idx] IN
        /\ Get(record, "filename") # ""
        /\ Get(record, "filename") \notin processed_files
        /\ yes_no_responses' = Append(yes_no_responses, output_entry(record))
        /\ processed_files' = processed_files \cup {record["filename"]}
    /\ pc' = "save_responses"
    /\ StoreKept
    /\ UNCHANGED <<outputFile, idx, merged_list, unitsDone, kills,
                   storeTorn>>
    /\ ProducerFrame

\* save_responses, line 32: open(file_path, "w")
save_responses_open ==
    /\ pc = "save_responses"
    /\ outputFile' = MalformedFile
    /\ pc' = "dump_responses"
    /\ StoreKept
    /\ UNCHANGED <<yes_no_responses, processed_files, idx, merged_list,
                   unitsDone, kills, storeTorn>>
    /\ ProducerFrame

\* save_responses, line 33: json.dump
save_responses_dump ==
    /\ pc = "dump_responses"
    /\ outputFile' = JsonFile(yes_no_responses)
    /\ pc' = "update_global"
    /\ StoreKept
    /\ UNCHANGED <<yes_no_responses, processed_files, idx, merged_list,
                   unitsDone, kills, storeTorn>>
    /\ ProducerFrame

\* update_global_file up to save_json's open(file_path, "w"): both files are
\* loaded and merged, the global file is opened for writing.
update_global_open ==
    /\ pc = "update_global"
    /\ merged_list' = load_json(update_global_file(globalFile, outputFile, ""))
    /\ globalFile' = MalformedFile
    /\ pc' = "dump_global"
    /\ UNCHANGED <<everStored, outputFile, yes_no_responses, processed_files, idx, unitsDone,
                   kills, storeTorn>>
    /\ ProducerFrame

\* save_json, line 27: json.dump; the cycle of this record is complete.
save_json_dump ==
    /\ pc = "dump_global"
    /\ globalFile' = save_json(merged_list)
    /\ everStored' = everStored \cup StoreIds(merged_list)
    /\ merged_list' = <<>>
    /\ unitsDone' = unitsDone + 1
    /\ idx' = idx + 1
    /\ pc' = "loop"
    /\ UNCHANGED <<outputFile, yes_no_responses, processed_files, kills, storeTorn>>
    /\ ProducerFrame

\* The loop is over.
loop_exit ==
    /\ pc = "loop"
    /\ idx > Len(load_json(inputFile))
    /\ pc' = "done"
    /\ StoreKept
    /\ UNCHANGED <<outputFile, yes_no_responses, processed_files, idx,
                   merged_list, unitsDone, kills, storeTorn>>
    /\ ProducerFrame

Running == {"loop", "save_responses", "dump_responses", "update_global",
            "dump_global"}

\* The process is interrupted: its memory is lost, the files stay as they are.
kill ==
    /\ pc \in Running
    /\ kills < MaxKills
    /\ kills' = kills + 1
    /\ storeTorn' = (storeTorn \/ pc = "dump_global")
    /\ pc' = "killed"
    /\ yes_no_responses' = <<>>
    /\ processed_files' = {}
    /\ idx' = 0
    /\ merged_list' = <<>>
    /\ StoreKept
    /\ UNCHANGED <<outputFile, unitsDone>>
    /\ ProducerFrame

\* main is run again.
restart ==
    /\ pc = "killed"
    /\ pc' = "start"
    /\ StoreKept
    /\ UNCHANGED <<outputFile, yes_no_responses, processed_files, idx,
                   merged_list, unitsDone, kills, storeTorn>>
    /\ ProducerFrame

ProducerNext ==
    \/ main_load
    \/ loop_skip
    \/ loop_classify
    \/ save_responses_open
    \/ save_responses_dump
    \/ update_global_open
    \/ save_json_dump
    \/ loop_exit
    \/ kill
    \/ restart

SpecProducer == ProducerInit /\ [][ProducerNext]_vars

----------------------------------------------------------------------------
(* Claims on the producer loop *)

\* The store an uninterrupted run leaves after its first n records.
StoreAfterUnits(n) ==
    LET records == load_json(inputFile)
        entries == [i \in 1..n |-> output_entry(records[i])]
    IN  load_json(update_global_file(PriorGlobal(records), JsonFile(entries), ""))

\* Without interruption the store is, between two cycles, the store of the
\* records completed so far.
UninterruptedCheckpoint ==
    (kills = 0 /\ pc \in {"loop", "save_responses", "dump_responses",
                          "update_global", "done"})
        => Store = StoreAfterUnits(unitsDone)

\* C5: the filenames persisted in the global file never lose a member:
\* whenever no write of the file is under way, it holds every filename a
\* completed write has held.
NeverDeleted ==
    pc # "dump_global" => everStored \subseteq StoreIds(Store)

\* C6: when the loop is interrupted after N records have completed their
\* cycle, the global file holds exactly the store of the first N records.
\* Stated for the first interruption and N >= 1, so that a violation shows
\* completed records lost.
CheckpointExact ==
    (pc = "killed" /\ kills = 1 /\ unitsDone >= 1)
        => Store = StoreAfterUnits(unitsDone)

\* C7: an interrupted run that is run again to completion leaves the store
\* of one uninterrupted run over all records.  Stated for the runs whose
\* interruptions did not fall inside the writing of the global file.
ResumedEqualsFull ==
    (pc = "done" /\ ~storeTorn)
        => Store = StoreAfterUnits(Len(load_json(inputFile)))

----------------------------------------------------------------------------
(* cholera_processor.py: process_cholera_deaths.  A file name is a record  *)
(* [base, ext]; a directory maps the names of its files to their content.  *)

PdfName(base) == [base |-> base, ext |-> ".pdf"]

\* str.lower() of an extension.
LowerExt(ext) == IF ext = ".PDF" THEN ".pdf" ELSE ext

\* file.lower().endswith(".pdf")
IsPdfName(name) == LowerExt(name.ext) = ".pdf"

\* str.lower() of a cholera_death value.
LowerLabel(l) == IF l \in {"YES", "Yes"} THEN "yes" ELSE l

\* Lines 31-35: the records with cholera_death == "yes".
cholera_records(complete_data) ==
    SelectSeq(complete_data,
              LAMBDA record : LowerLabel(Get(record, "cholera_death")) = "yes")

\* Line 38
valid_filenames(records) ==
    {Get(records[i], "filename") : i \in 1..Len(records)}

\* Lines 41-50: the PDFs of the directory whose base name is not valid.
OutdatedExactExtension(dir, valid) ==
    {name \in DOMAIN dir : name.ext = ".pdf" /\ name.base \notin valid}

Outdated(dir, valid) ==
    {name \in DOMAIN dir : IsPdfName(name) /\ name.base \notin valid}

\* Lines 53-67: the PDFs to copy: of a record, in the source directory and
\* not in the destination.  (A second record of the same filename finds the
\* file of the first, or fails as the first did.)
MissingOrStale(dir, src, records) ==
    {PdfName(base) : base \in valid_filenames(records)} \cap DOMAIN src

Missing(dir, src, records) ==
    {PdfName(base) : base \in valid_filenames(records)}
        \cap (DOMAIN src \ DOMAIN dir)

\* The directory after the removals and the copies that did not fail.
Reconciled(dir, src, removed, copied) ==
    [name \in (DOMAIN dir \ removed) \cup copied |->
        IF name \in copied THEN src[name] ELSE dir[name]]

\* The directories and stores a run starts from.
CertNames == {PdfName("a"), PdfName("b")}

CholeraNames ==
    {PdfName("a"), PdfName("b"), PdfName("c"),
     [base |-> "a", ext |-> ".PDF"], [base |-> "b", ext |-> ".txt"]}

Labels == {"yes", "no", "unknown", ""}

\* The global file after deepseek_cholera_request has merged its entries.
ClassifiedGlobal(la, lb) ==
    LET entry(id, l) ==
            [k \in {"filename", "cause_of_death", "cholera_death"} |->
                CASE k = "filename" -> id
                  [] k = "cause_of_death" -> "1"
                  [] k = "cholera_death" -> l]
    IN  update_global_file(MissingFile,
                           JsonFile(<<entry("a", la), entry("b", lb)>>), "")

\* The export an earlier run wrote when both records were positive.
StaleExport == JsonFile(load_json(ClassifiedGlobal("yes", "yes")))

\* Lines 72-73: open(cholera_json_path, "w") and json.dump replace whatever
\* the export held.
ExportPatched(previous, records) ==
    previous \o SelectSeq(records, LAMBDA record :
                    \A i \in 1..Len(previous) : previous[i] # record)

dump_export(previous, records) == records

ReconcilerInit ==
    /\ globalFile \in {ClassifiedGlobal(la, lb) : la, lb \in Labels}
                        \cup {MalformedFile}
    /\ \E names \in SUBSET CertNames : certDir = [name \in names |-> "new"]
    /\ \E names \in SUBSET CholeraNames : choleraDir = [name \in names |-> "old"]
    /\ choleraJson \in {MissingFile, MalformedFile, StaleExport}
    /\ dirBefore = EmptyDir
    /\ exportBefore = MissingFile
    /\ lastRun = "none"
    /\ rmFailed = {}
    /\ cpFailed = {}
    /\ StoreIdle
    /\ ClassifierIdle
    /\ ProducerIdle
    /\ LaterIdle

ReconcilerFrame ==
    UNCHANGED <<globalFile, certDir, storeVars, classifierVars, producerVars,
                laterVars>>

\* Lines 24-29: the global file cannot be read, the function returns.
process_cholera_deaths_unreadable ==
    /\ globalFile.state # "json"
    /\ lastRun' = "unreadable"
    /\ dirBefore' = choleraDir
    /\ exportBefore' = choleraJson
    /\ rmFailed' = {}
    /\ cpFailed' = {}
    /\ UNCHANGED <<choleraDir, choleraJson>>
    /\ ReconcilerFrame

\* The run if the first removal or copy that fails ended it.
process_cholera_deaths_aborts ==
    /\ globalFile.state = "json"
    /\ LET records == cholera_records(globalFile.data)
           outdated == Outdated(choleraDir, valid_filenames(records))
           missing == Missing(choleraDir, certDir, records)
       IN  \E rm \in SUBSET outdated, cp \in SUBSET missing :
               /\ rmFailed' = rm
               /\ cpFailed' = cp
               /\ IF rm \cup cp = {}
                  THEN /\ choleraDir' = Reconciled(choleraDir, certDir,
                                                   outdated, missing)
                       /\ choleraJson' = JsonFile(records)
                  ELSE UNCHANGED <<choleraDir, choleraJson>>
    /\ dirBefore' = choleraDir
    /\ exportBefore' = choleraJson
    /\ lastRun' = "ok"
    /\ ReconcilerFrame

\* Lines 31-76: the whole run; any of its removals and copies may fail.
process_cholera_deaths ==
    /\ globalFile.state = "json"
    /\ LET records == cholera_records(globalFile.data)
           outdated == Outdated(choleraDir, valid_filenames(records))
           missing == Missing(choleraDir, certDir, records)
       IN  \E rm \in SUBSET outdated, cp \in SUBSET missing :
               /\ choleraDir' = Reconciled(choleraDir, certDir,
                                           outdated \ rm, missing \ cp)
               /\ rmFailed' = rm
               /\ cpFailed' = cp
               /\ choleraJson' =
                     JsonFile(dump_export(load_json(choleraJson), records))
    /\ dirBefore' = choleraDir
    /\ exportBefore' = choleraJson
    /\ lastRun' = "ok"
    /\ ReconcilerFrame

ReconcilerNext ==
    \/ process_cholera_deaths_unreadable
    \/ process_cholera_deaths

SpecReconcile == ReconcilerInit /\ [][ReconcilerNext]_vars

----------------------------------------------------------------------------
(* Claims on the reconciler *)

PdfIds(dir) == {name.base : name \in {n \in DOMAIN dir : IsPdfName(n)}}

KeepIds == valid_filenames(cholera_records(Store))

CleanRun == lastRun = "ok" /\ rmFailed = {} /\ cpFailed = {}

\* C8, as stated: after a run the PDFs of the destination are exactly those
\* of the positive records.
EqualsKeepSet == CleanRun => PdfIds(choleraDir) = KeepIds

\* C8, amended: after a run in which no removal and no copy failed, the
\* PDFs of the destination are those of the positive records that have a
\* PDF in the source directory or had one in the destination.
EqualsAvailableKeepSet ==
    CleanRun =>
        PdfIds(choleraDir)
            = {id \in KeepIds : \/ id \in PdfIds(dirBefore)
                                \/ PdfName(id) \in DOMAIN certDir}

\* Two positive records, one without a source PDF; a stale PDF was removed.
EqualsAvailableKeepSetWitness ==
    /\ CleanRun
    /\ KeepIds = {"a", "b"}
    /\ DOMAIN certDir = {PdfName("a")}
    /\ DOMAIN dirBefore = {PdfName("c")}
    /\ DOMAIN choleraDir = {PdfName("a")}

\* C9: a PDF of a positive record that was in the destination before the run
\* is there after it, with the content it had.
NonDestructiveCopy ==
    lastRun = "ok" =>
        \A name \in DOMAIN dirBefore :
            (IsPdfName(name) /\ name.base \in KeepIds)
                => /\ name \in DOMAIN choleraDir
                   /\ choleraDir[name] = dirBefore[name]

\* The source holds another content under the same name.
NonDestructiveCopyWitness ==
    /\ lastRun = "ok"
    /\ "a" \in KeepIds
    /\ PdfName("a") \in DOMAIN dirBefore
    /\ PdfName("a") \in DOMAIN certDir
    /\ certDir[PdfName("a")] # dirBefore[PdfName("a")]
    /\ choleraDir[PdfName("a")] = dirBefore[PdfName("a")]

\* The records of the store whose classification is positive, in store
\* order.
PositiveOf(store) ==
    SelectSeq(store, LAMBDA record : record["cholera_death"] = "yes")

\* C15: after a run that read the store, the export holds exactly the
\* positive records of the store, in store order, whatever it held before.
ExportRecomputed ==
    lastRun = "ok" => choleraJson = JsonFile(PositiveOf(Store))

\* The export held both records; one is positive now.
ExportRecomputedWitness ==
    /\ lastRun = "ok"
    /\ exportBefore = StaleExport
    /\ StoreIds(PositiveOf(Store)) = {"b"}
    /\ StoreIds(load_json(choleraJson)) = {"b"}

\* C16: a source PDF that is missing, a removal that fails and a copy that
\* fails leave only their own file as it was: every other outdated PDF is
\* removed, every other PDF of a positive record that the source directory
\* has is in the destination, and the export is written.
PerArtifactFailures ==
    lastRun = "ok" =>
        /\ \A name \in DOMAIN dirBefore :
              (IsPdfName(name) /\ name.base \notin KeepIds /\ name \notin rmFailed)
                => name \notin DOMAIN choleraDir
        /\ \A id \in KeepIds :
              (PdfName(id) \in DOMAIN certDir /\ PdfName(id) \notin cpFailed)
                => PdfName(id) \in DOMAIN choleraDir
        /\ choleraJson = JsonFile(PositiveOf(Store))

\* The removal of the outdated PDF fails and the copy of one positive
\* record's PDF fails; the other positive record's PDF is copied and the
\* export is replaced.
PerArtifactFailuresWitness ==
    /\ lastRun = "ok"
    /\ KeepIds = {"a", "b"}
    /\ DOMAIN certDir = {PdfName("a"), PdfName("b")}
    /\ DOMAIN dirBefore = {PdfName("c")}
    /\ rmFailed = {PdfName("c")}
    /\ cpFailed = {PdfName("a")}
    /\ DOMAIN choleraDir = {PdfName("b"), PdfName("c")}
    /\ exportBefore = MalformedFile
    /\ choleraJson = JsonFile(PositiveOf(Store))

----------------------------------------------------------------------------
(* global_updater.py: one update_global_file call, on a global file and a  *)
(* source file of any content.                                             *)

\* The global files a call can find: none, one that is not JSON text, one
\* that is not text, and the stores one producer record gives.
StoredFiles ==
    {MissingFile, MalformedFile, UndecodableFile}
        \cup {update_global_file(MissingFile, JsonFile(<<record>>), OutputFilenameKey) :
                 record \in Partials}

RECURSIVE BatchesOf(_)
BatchesOf(n) ==
    IF n = 0 THEN {<<>>}
    ELSE {Append(batch, record) : batch \in BatchesOf(n - 1), record \in Partials}

SourceFiles ==
    {MissingFile, MalformedFile, UndecodableFile}
        \cup {JsonFile(batch) : batch \in UNION {BatchesOf(n) : n \in 1..MaxBatch}}

CycleInit ==
    /\ globalFile \in StoredFiles
    /\ baseGlobal = globalFile
    /\ sourceFile \in SourceFiles
    /\ renameKey \in RenameKeys
    /\ cycleResult = "none"
    /\ ClassifierIdle
    /\ ProducerIdle
    /\ ReconcilerIdle
    /\ StageIdle
    /\ CallsIdle

CycleFrame ==
    UNCHANGED <<storeVars, classifierVars, producerVars, reconcilerVars,
                stageVars, callVars>>

\* update_global_file, lines 64-71: both loads return, the merged list is
\* saved.
update_global_file_returns ==
    /\ cycleResult = "none"
    /\ ~load_json_raises(globalFile)
    /\ ~load_json_raises(sourceFile)
    /\ globalFile' = update_global_file(globalFile, sourceFile, renameKey)
    /\ cycleResult' = "completed"
    /\ CycleFrame

\* update_global_file, line 64 or 67: load_json raises, nothing is saved.
update_global_file_raises ==
    /\ cycleResult = "none"
    /\ load_json_raises(globalFile) \/ load_json_raises(sourceFile)
    /\ cycleResult' = "raised"
    /\ UNCHANGED globalFile
    /\ CycleFrame

CycleNext == update_global_file_returns \/ update_global_file_raises

SpecCycle == CycleInit /\ [][CycleNext]_vars

----------------------------------------------------------------------------
(* Claims on the loads *)

Unreadable(file) == file.state # "json"

\* A global file that is missing or is not JSON text counts as empty: the
\* call completes and saves the store of the source file alone.
JsonErrorsAreEmpty ==
    (cycleResult = "completed" /\ Unreadable(baseGlobal))
        => Store = merge_records(<<>>, SourceData, renameKey)

\* C13: a global or source file that is missing or not well-formed is
\* loaded as an empty list and no exception escapes; the call that follows
\* completes and, for such a global file, saves the store of the source
\* file alone.
MalformedLoadsEmpty ==
    /\ cycleResult # "raised"
    /\ (cycleResult = "completed" /\ Unreadable(baseGlobal))
          => Store = merge_records(<<>>, SourceData, renameKey)

----------------------------------------------------------------------------
(* deepseek_request.py: main, record by record.  The stage reads the OCR   *)
(* records, asks the model for the fields of each record it has not        *)
(* processed, appends the answer to its list, writes the list to           *)
(* ./deepseek/deepseek_response.json (inputFile here: it is the input of   *)
(* deepseek_cholera_request.py) and calls update_global_file.              *)

\* ./ocr/transcribed_json.json
ocr_data == [i \in 1..MaxUnits |-> OcrRecord(UnitIds[i], "1")]

\* The global file document_ai_processor.py leaves.
OcrGlobal == update_global_file(MissingFile, JsonFile(ocr_data), "")

StageInit ==
    /\ globalFile = OcrGlobal
    /\ StoreIdle
    /\ ClassifierIdle
    /\ ProducerIdle
    /\ ReconcilerIdle
    /\ LaterIdle

StageFrame ==
    UNCHANGED <<storeVars, classifierVars, reconcilerVars, cycleVars, callVars,
                pc, yes_no_responses, processed_files, idx, merged_list,
                unitsDone, storeTorn, everStored>>

\* Lines 81-86: the files are loaded.
extract_start ==
    /\ stagePc = "idle"
    /\ deepseek_responses' = load_json(inputFile)
    /\ stageIdx' = 1
    /\ stagePc' = "loop"
    /\ failedWrites' = {}
    /\ continued' = FALSE
    /\ UNCHANGED <<globalFile, inputFile, outputFile, kills>>
    /\ StageFrame

\* The record the loop is at is one to process (lines 92-97).
AtUnprocessed ==
    /\ stagePc = "loop"
    /\ stageIdx <= Len(ocr_data)
    /\ Get(ocr_data[stageIdx], "filename") # ""
    /\ Get(ocr_data[stageIdx], "filename") \notin FilenamesOf(deepseek_responses)

\* The loop goes on to the next record.
NextRecord(responses, input, global, failed) ==
    /\ deepseek_responses' = responses
    /\ inputFile' = input
    /\ globalFile' = global
    /\ failedWrites' = failed
    /\ continued' = (continued \/ (AtUnprocessed /\ failedWrites # {}))
    /\ stageIdx' = stageIdx + 1
    /\ UNCHANGED <<stagePc, outputFile, kills>>
    /\ StageFrame

\* Lines 92-97: a record without filename or already processed.
extract_skip ==
    /\ stagePc = "loop"
    /\ stageIdx <= Len(ocr_data)
    /\ ~AtUnprocessed
    /\ NextRecord(deepseek_responses, inputFile, globalFile, failedWrites)

\* Lines 109, 133-134: the request raises RequestException.
extract_request_fails ==
    /\ AtUnprocessed
    /\ NextRecord(deepseek_responses, inputFile, globalFile, failedWrites)

\* Lines 109-132: the model answers with a cause, the list is saved and
\* merged into the global file.
extract_saved ==
    /\ AtUnprocessed
    /\ \E c \in Causes :
        LET responses == Append(deepseek_responses,
                                DeepseekRecord(ocr_data[stageIdx]["filename"], c))
        IN  NextRecord(responses, JsonFile(responses),
                       update_global_file(globalFile, JsonFile(responses), ""),
                       failedWrites)

\* Lines 125-128, 135-136: save_responses raises OSError, at open (the file
\* is as it was) or inside json.dump (the file is cut short); the except
\* clause prints it.
extract_save_raises ==
    /\ AtUnprocessed
    /\ \E c \in Causes, cut \in BOOLEAN :
        LET fname == ocr_data[stageIdx]["filename"]
            responses == Append(deepseek_responses, DeepseekRecord(fname, c))
        IN  NextRecord(responses, IF cut THEN MalformedFile ELSE inputFile,
                       globalFile, failedWrites \cup {fname})

\* Lines 128-130, 135-136: update_global_file raises OSError in save_json,
\* at open or inside json.dump; the except clause prints it.
extract_update_raises ==
    /\ AtUnprocessed
    /\ \E c \in Causes, cut \in BOOLEAN :
        LET fname == ocr_data[stageIdx]["filename"]
            responses == Append(deepseek_responses, DeepseekRecord(fname, c))
        IN  NextRecord(responses, JsonFile(responses),
                       IF cut THEN MalformedFile ELSE globalFile,
                       failedWrites \cup {fname})

\* The loop is over, main returns.
extract_exit ==
    /\ stagePc = "loop"
    /\ stageIdx > Len(ocr_data)
    /\ stagePc' = "idle"
    /\ deepseek_responses' = <<>>
    /\ stageIdx' = 0
    /\ UNCHANGED <<globalFile, inputFile, outputFile, kills, failedWrites,
                   continued>>
    /\ StageFrame

ExtractNext ==
    \/ extract_start
    \/ extract_skip
    \/ extract_request_fails
    \/ extract_saved
    \/ extract_save_raises
    \/ extract_update_raises
    \/ extract_exit

SpecExtract == StageInit /\ [][ExtractNext]_vars

----------------------------------------------------------------------------
(* Claims on write failures *)

\* C17: a write of the stage's output file or of the global file that
\* raises ends the run: no later record is processed.
WriteFailureStopsRun == failedWrites # {} => ~continued

----------------------------------------------------------------------------
(* The field-extraction stage (deepseek_request.py) and the classification *)
(* stage (deepseek_cholera_request.py), run one after the other in any     *)
(* order and any number of times; a run of the extraction stage can be     *)
(* interrupted.                                                            *)

\* The process is interrupted while it handles a record: before anything is
\* written, inside save_responses between open and json.dump, between
\* save_responses and update_global_file, or inside save_json between open
\* and json.dump.  Its memory is lost, the files stay as they are.
extract_killed ==
    /\ AtUnprocessed
    /\ kills < MaxKills
    /\ \E c \in Causes,
          at \in {"request", "dump_responses", "update_global", "dump_global"} :
        LET responses == Append(deepseek_responses,
                                DeepseekRecord(ocr_data[stageIdx]["filename"], c))
        IN  /\ inputFile' = CASE at = "request" -> inputFile
                               [] at = "dump_responses" -> MalformedFile
                               [] OTHER -> JsonFile(responses)
            /\ globalFile' = IF at = "dump_global" THEN MalformedFile
                             ELSE globalFile
    /\ kills' = kills + 1
    /\ deepseek_responses' = <<>>
    /\ stageIdx' = 0
    /\ stagePc' = "idle"
    /\ UNCHANGED <<outputFile, failedWrites, continued>>
    /\ StageFrame

\* deepseek_cholera_request.py, lines 92-116: the loop from record i on,
\* with the list of entries and the two files it has written so far.
RECURSIVE ClassifierLoop(_, _, _, _, _)
ClassifierLoop(deepseek_records, i, responses, output, global) ==
    IF i > Len(deepseek_records) THEN <<output, global>>
    ELSE LET record == deepseek_records[i]
             filename == Get(record, "filename")
             entries == Append(responses, output_entry(record))
         IN  IF filename = "" \/ filename \in FilenamesOf(responses)
             THEN ClassifierLoop(deepseek_records, i + 1, responses, output,
                                 global)
             ELSE ClassifierLoop(deepseek_records, i + 1, entries,
                                 JsonFile(entries),
                                 update_global_file(global, JsonFile(entries), ""))

\* deepseek_cholera_request.py: main, from start to return.
classify_run ==
    /\ stagePc = "idle"
    /\ LET files == ClassifierLoop(load_json(inputFile), 1,
                                   load_json(outputFile), outputFile, globalFile)
       IN  /\ outputFile' = files[1]
           /\ globalFile' = files[2]
    /\ UNCHANGED <<inputFile, kills, stageVars>>
    /\ StageFrame

StagesNext ==
    \/ extract_start
    \/ extract_skip
    \/ extract_request_fails
    \/ extract_saved
    \/ extract_exit
    \/ extract_killed
    \/ classify_run

SpecStages == StageInit /\ [][StagesNext]_vars

----------------------------------------------------------------------------
(* Claims on the two stages *)

Consistent(record) ==
    record["cholera_death"] # ""
        => record["cholera_death"]
             = check_cholera_keywords(Chars(record["cause_of_death"]))

\* While no run is interrupted, every stored classification is the one of
\* the stored cause.
UninterruptedConsistent ==
    kills = 0 => \A i \in 1..Len(Store) : Consistent(Store[i])

\* C19: in every state of the global file, each record with a non-empty
\* cholera_death has the cholera_death check_cholera_keywords gives for the
\* cause_of_death of that record.
ClassificationConsistent ==
    \A i \in 1..Len(Store) : Consistent(Store[i])

----------------------------------------------------------------------------
(* Two update_global_file calls of two processes, with no lock: each call  *)
(* loads the global file (lines 64-65), merges its source file and opens   *)
(* the global file for writing, which empties it (lines 67-71, 26), and    *)
(* dumps its list (line 27).  Two processes that have the file open at the *)
(* same time write over each other: what a dump then leaves is the list of *)
(* the dumping call or bytes that are not JSON text.                       *)

Calls == {1, 2}

OtherCall(p) == 3 - p

\* The call has the global file open for writing.
Writing(p) == callPc[p] \in {"opened", "opened_shared"}

\* The call has started and has not returned.
UnderWay(p) == callPc[p] \notin {"idle", "done"}

KeyedPartials == {record \in Partials : Get(record, "filename") # ""}

CallSources == {JsonFile(<<record>>) : record \in KeyedPartials}

\* The global files the two calls can find.
CallStores ==
    {MissingFile}
        \cup {update_global_file(MissingFile, source, "") : source \in CallSources}

CallsInit ==
    /\ globalFile \in CallStores
    /\ baseGlobal = globalFile
    /\ sourceFile = MissingFile
    /\ renameKey = ""
    /\ callPc = <<"idle", "idle">>
    /\ loaded_dict = << <<>>, <<>> >>
    /\ updated_list = << <<>>, <<>> >>
    /\ callSource \in [1..2 -> CallSources]
    /\ overlapped = FALSE
    /\ ClassifierIdle
    /\ ProducerIdle
    /\ ReconcilerIdle
    /\ CycleIdle
    /\ StageIdle

CallFrame ==
    UNCHANGED <<storeVars, classifierVars, producerVars, reconcilerVars,
                cycleVars, stageVars, callSource>>

\* Lines 64-65
call_load(p) ==
    /\ callPc[p] = "idle"
    /\ loaded_dict' = [loaded_dict EXCEPT
                          ![p] = DictFromList(<<>>, load_json(globalFile))]
    /\ callPc' = [callPc EXCEPT ![p] = "loaded"]
    /\ overlapped' = (overlapped \/ UnderWay(OtherCall(p)))
    /\ UNCHANGED <<globalFile, updated_list>>
    /\ CallFrame

\* Lines 67-71 and save_json's open(file_path, "w")
call_open(p) ==
    /\ callPc[p] = "loaded"
    /\ updated_list' = [updated_list EXCEPT
                           ![p] = merge_records(loaded_dict[p],
                                                load_json(callSource[p]), "")]
    /\ globalFile' = MalformedFile
    /\ callPc' = IF Writing(OtherCall(p))
                 THEN [q \in 1..2 |-> "opened_shared"]
                 ELSE [callPc EXCEPT ![p] = "opened"]
    /\ overlapped' = (overlapped \/ UnderWay(OtherCall(p)))
    /\ UNCHANGED loaded_dict
    /\ CallFrame

\* save_json's json.dump and close
call_dump(p) ==
    /\ Writing(p)
    /\ \/ globalFile' = save_json(updated_list[p])
       \/ callPc[p] = "opened_shared" /\ globalFile' = MalformedFile
    /\ callPc' = [callPc EXCEPT ![p] = "done"]
    /\ overlapped' = (overlapped \/ UnderWay(OtherCall(p)))
    /\ UNCHANGED <<loaded_dict, updated_list>>
    /\ CallFrame

CallsNext == \E p \in Calls : call_load(p) \/ call_open(p) \/ call_dump(p)

SpecCalls == CallsInit /\ [][CallsNext]_vars

----------------------------------------------------------------------------
(* Claims on concurrent calls *)

BothDone == \A p \in Calls : callPc[p] = "done"

\* The store holds what call p merged: the records the call found, the
\* record of each of its partial records, and each field of it that the
\* other call's source does not supply for the same filename.
KeepsDataOf(p) ==
    LET other == load_json(callSource[OtherCall(p)])
        Supplied(fname, k) ==
            \E j \in 1..Len(other) :
                Get(other[j], "filename") = fname /\ k \in DOMAIN other[j]
        mine == load_json(callSource[p])
    IN  /\ StoreIds(load_json(baseGlobal)) \subseteq StoreIds(Store)
        /\ \A i \in 1..Len(mine) :
              LET fname == mine[i]["filename"] IN
              /\ fname \in StoreIds(Store)
              /\ \A k \in DOMAIN mine[i] :
                    Supplied(fname, k) \/ RecordOf(Store, fname)[k] = mine[i][k]

\* C18: when the two calls ran one after the other the store keeps the
\* data of both; a store that lacks data of one of them is reached only
\* when their steps interleaved.
LostOnlyWhenInterleaved ==
    (BothDone /\ ~overlapped) => \A p \in Calls : KeepsDataOf(p)

\* A lost update: both calls have returned, the global file is JSON text,
\* and the record of one call's filename is not in it.
LostOnlyWhenInterleavedWitness ==
    /\ BothDone
    /\ overlapped
    /\ globalFile.state = "json"
    /\ callSource = <<JsonFile(<<OcrRecord("a", "1")>>),
                      JsonFile(<<OcrRecord("b", "1")>>)>>
    /\ StoreIds(Store) = {"b"}

====
